---- MODULE Spec2Model ----
(***************************************************************************)
(* State-machine model of the geoportailv3 client-side controllers:        *)
(*   - app.LayermanagerController (layermanagerdirective.js)               *)
(*   - app.DrawController (draw directive: draw/select/style/URL state)    *)
(* Three specifications share the variables:                               *)
(*   LayerSpec : the layer manager (opacity toggling, layer removal)       *)
(*   Spec      : the draw controller (FairSpec adds event-loop fairness)   *)
(*   StyleSpec : the style function applied to bounded inputs              *)
(***************************************************************************)
EXTENDS Integers, Sequences, FiniteSets, TLC

\* ------------------------------------------------------------ bounds
\* Opacities are the rationals k / OpacityScale, k in 0..OpacityScale.
OpacityScale == 2
\* Number of layer objects the layer manager is handed.
NumLayers == 2
\* Number of feature objects a page session can hold (decoded + drawn).
MaxFeat == 2
\* Number of features under the pointer at a click.
MaxHits == 1
\* Number of zero-delay timeouts that can be pending at once.
MaxTimers == 2
\* Number of page loads (controller constructions) followed.
MaxSessions == 2

\* ------------------------------------------------------------ values
\* JavaScript's undefined.
Undef == "undefined"

Layers == 1..NumLayers
OpacityValues == 0..OpacityScale
FullOpacity == OpacityScale

VARIABLES
  \* ---- layer manager
  layerOpacity,     \* layer -> its opacity (layer.getOpacity())
  opacities_,       \* this.opacities_: layer uid -> <<v>> (the entry), or <<>>
                    \* when the object has no such key
  mapLayers,        \* layers currently on the map
  layerHist,        \* layer -> what the last (at most two) changeVisibility
                    \* calls in a row found: the opacity and the memory entry
  \* ---- draw controller
  pc,               \* "new" (constructor not yet run) | "ready"
  session,          \* the page loads so far, this one included
  urlParam,         \* the URL parameter `features`: <<>> when absent, else <<text>>
  active,           \* this.active, the externally bound flag
  toolActive,       \* draw tool -> getActive() of the draw interaction
  featureSeq_,      \* this.featureSeq_
  features,         \* this.features, the collection (a sequence of feature ids)
  selectedFeatures, \* this.selectedFeatures, the select interaction's collection
  heap,             \* feature id -> the feature object (geometry + attributes)
  nAlloc,           \* feature objects created in this page session
  sketch,           \* <<f, tool>> while drawend for f is dispatched and f is not
                    \* yet pushed to the collection, else <<>>
  timers,           \* pending window.setTimeout(.., 0) callbacks, oldest first
  popup,            \* the feature popup: <<>> hidden, <<f>> shown for f
  \* ---- style function
  styleIn,          \* the feature the renderer hands to the style function
  styleOut,         \* the styles returned for it
  rendered          \* whether styleOut is the result for styleIn

layerVars == <<layerOpacity, opacities_, mapLayers, layerHist>>
drawVars == <<pc, session, urlParam, active, toolActive, featureSeq_, features,
              selectedFeatures, heap, nAlloc, sketch, timers, popup>>

styleVars == <<styleIn, styleOut, rendered>>

vars == <<layerVars, drawVars, styleVars>>

\* ------------------------------------------------------------ helpers
Range(s) == {s[i] : i \in 1..Len(s)}

\* Keep the last two entries of a history.
Last2(s) == IF Len(s) <= 2 THEN s ELSE SubSeq(s, Len(s) - 1, Len(s))

\* Array.prototype.indexOf(x) != -1
Contains(s, x) == \E i \in 1..Len(s) : s[i] = x

\* The sequence s without the elements for which Drop holds.
RECURSIVE Without(_, _)
Without(s, drop) ==
  IF s = <<>> THEN <<>>
  ELSE IF Head(s) \in drop THEN Without(Tail(s), drop)
  ELSE <<Head(s)>> \o Without(Tail(s), drop)

\* ============================================================
\* app.LayermanagerController
\* ============================================================

\* The constructor: this.opacities_ = {}.
LayerInit ==
  /\ layerOpacity \in [Layers -> OpacityValues]
  /\ opacities_ = [l \in Layers |-> <<>>]
  /\ mapLayers = Layers
  /\ layerHist = [l \in Layers |-> <<>>]

\* The layer manager left as constructed (the other specifications).
LayerIdle ==
  /\ layerOpacity = [l \in Layers |-> FullOpacity]
  /\ opacities_ = [l \in Layers |-> <<>>]
  /\ mapLayers = Layers
  /\ layerHist = [l \in Layers |-> <<>>]

\* goog.isDef(this.opacities_[uid])
isDefOpacity(mem, uid) == mem[uid] # <<>>

\* Mutant: the remembered opacity is ignored on restore.
newOpacityOf_ignoreMemory(cur, mem, uid) ==
  IF cur = 0 THEN FullOpacity ELSE 0

\* Mutant: the default of the restore path is 0, not 1.
newOpacityOf_defaultZero(cur, mem, uid) ==
  IF cur = 0
    THEN (IF isDefOpacity(mem, uid) THEN mem[uid][1] ELSE 0)
    ELSE 0

\* The opacity changeVisibility gives the layer uid, whose opacity is cur.
newOpacityOf(cur, mem, uid) ==
  IF cur = 0
    THEN (IF isDefOpacity(mem, uid) THEN mem[uid][1] ELSE FullOpacity)
    ELSE 0

\* Mutant: the entry is not deleted when the opacity is restored.
newMemoryOf_keepEntry(cur, mem, uid) ==
  IF cur = 0 THEN mem ELSE [mem EXCEPT ![uid] = <<cur>>]

\* The memory changeVisibility leaves: the entry deleted, or overwritten.
newMemoryOf(cur, mem, uid) ==
  IF cur = 0
    THEN [mem EXCEPT ![uid] = <<>>]
    ELSE [mem EXCEPT ![uid] = <<cur>>]

changeVisibility(layer) ==
  LET currentOpacity == layerOpacity[layer]
      newOpacity == newOpacityOf(currentOpacity, opacities_, layer)
  IN /\ opacities_' = newMemoryOf(currentOpacity, opacities_, layer)
     /\ layerOpacity' = [layerOpacity EXCEPT ![layer] = newOpacity]
     /\ layerHist' = [layerHist EXCEPT ![layer] =
            Last2(Append(@, [pre |-> currentOpacity,
                             memPre |-> opacities_[layer]]))]
     /\ UNCHANGED <<mapLayers, drawVars, styleVars>>

\* Mutant: removing a layer also forgets its remembered opacity.
removeLayer_forget(layer) ==
  /\ layer \in mapLayers
  /\ mapLayers' = mapLayers \ {layer}
  /\ opacities_' = [opacities_ EXCEPT ![layer] = <<>>]
  /\ UNCHANGED <<layerOpacity, layerHist, drawVars, styleVars>>

\* this['map'].removeLayer(layer)
removeLayer(layer) ==
  /\ layer \in mapLayers
  /\ mapLayers' = mapLayers \ {layer}
  /\ UNCHANGED <<layerOpacity, opacities_, layerHist, drawVars, styleVars>>

\* Any other writer of a layer's opacity (layer.setOpacity called from outside
\* the controller, e.g. an opacity slider bound to the layer).
setOpacity(layer, v) ==
  /\ v # layerOpacity[layer]
  /\ layerOpacity' = [layerOpacity EXCEPT ![layer] = v]
  /\ layerHist' = [layerHist EXCEPT ![layer] = <<>>]
  /\ UNCHANGED <<opacities_, mapLayers, drawVars, styleVars>>

LayerNext ==
  \/ \E l \in Layers : changeVisibility(l)
  \/ \E l \in Layers : removeLayer(l)
  \/ \E l \in Layers, v \in OpacityValues : setOpacity(l, v)

\* ============================================================
\* app.DrawController
\* ============================================================

\* JavaScript booleans, kept apart from TLA+ ones so that an attribute can
\* also be undefined.
JsTrue == "true"
JsFalse == "false"
FlagValues == {Undef, JsTrue, JsFalse}

\* The three draw interactions, named by their ol.geom.GeometryType.
Tools == {"Point", "LineString", "Polygon"}

\* Feature objects of this controller's session, and one feature that is on
\* the map but belongs to another layer.
FeatureIds == 1..MaxFeat
ForeignFeature == MaxFeat + 1
HeapIds == 1..(MaxFeat + 1)

\* A feature object not yet created.
BlankFeature ==
  [geom |-> Undef, name |-> Undef, editable |-> Undef, selected |-> Undef,
   style |-> <<>>, styleFn |-> FALSE, origin |-> "none"]

\* The feature of another layer.
ForeignObject == [BlankFeature EXCEPT !.geom = "Point", !.origin = "foreign"]

\* Mutant: the size does not depend on the geometry type.
defaultStyle_pointSize(geomType) ==
  [color |-> "#ed1c24", opacity |-> 20, size |-> 1000,
   shape |-> "circle", rotation |-> 0, lineDash |-> "plain", text |-> Undef]

\* The `__style__` descriptor onDrawEnd_ attaches. Sizes are in hundredths
\* (1000 is 10, 125 is 1.25), the opacity too (20 is 0.2).
defaultStyle(geomType) ==
  [color |-> "#ed1c24", opacity |-> 20,
   size |-> IF geomType = "Point" THEN 1000 ELSE 125,
   shape |-> "circle", rotation |-> 0, lineDash |-> "plain", text |-> Undef]

\* Mutant: the number is taken from the size of the collection.
drawEndName_fromLength(seq) == "element " \o ToString(Len(features) + 1)

\* 'element ' + (++this.featureSeq_), given the counter before the increment.
drawEndName(seq) == "element " \o ToString(seq + 1)

\* The feature as onDrawEnd_ leaves it (the four set/setStyle calls).
drawnFeature(geomType, seq) ==
  [geom |-> geomType, name |-> drawEndName(seq), editable |-> JsTrue,
   selected |-> Undef, style |-> <<defaultStyle(geomType)>>, styleFn |-> TRUE,
   origin |-> "drawn"]

\* ---- ngeo.format.FeatureHash (the external encoding collaborator)
\* One feature as text: its geometry and its attributes.
writeFeature(obj) ==
  <<obj.geom, obj.name, obj.editable, obj.selected, obj.style>>

writeFeatures(objs) == [i \in 1..Len(objs) |-> writeFeature(objs[i])]

\* One feature read back: a new object with the geometry and attributes of
\* the text; no style function is set on it.
readFeature(item) ==
  [geom |-> item[1], name |-> item[2], editable |-> item[3],
   selected |-> item[4], style |-> item[5], styleFn |-> FALSE,
   origin |-> "decoded"]

readFeatures(text) == [i \in 1..Len(text) |-> readFeature(text[i])]

\* The objects of a list of feature ids.
objectsOf(h, ids) == [i \in 1..Len(ids) |-> h[ids[i]]]

\* ---- construction
DrawInit ==
  /\ pc = "new"
  /\ session = 1
  /\ urlParam = <<>>
  /\ active \in FlagValues
  /\ toolActive = [t \in Tools |-> FALSE]
  /\ featureSeq_ = 0
  /\ features = <<>>
  /\ selectedFeatures = <<>>
  /\ heap = [f \in HeapIds |-> IF f = ForeignFeature THEN ForeignObject
                                ELSE BlankFeature]
  /\ nAlloc = 0
  /\ sketch = <<>>
  /\ timers = <<>>
  /\ popup = <<>>

\* The draw controller before its construction (the other specifications).
DrawIdle == DrawInit /\ active = Undef

\* The text of a `features` parameter is a list of feature items; readFeatures
\* yields a feature list when every item is one, and null otherwise.
isDecodable(text) == \A i \in 1..Len(text) : Len(text[i]) = 5

\* Mutant: the decoded features are put before the existing members.
extendCollection_prepend(feats, ids) == ids \o feats

\* this.features.extend(features)
extendCollection(feats, ids) == feats \o ids

\* The constructor body. The three draw interactions are created inactive; the
\* `features` parameter, when defined, is decoded, the result is asserted not
\* to be null, and the features are appended to the collection. A failed
\* assertion throws out of the constructor. (The watcher's first invocation,
\* with the flag's initial value, finds all tools inactive and changes
\* nothing.)
Construct ==
  /\ pc = "new"
  /\ featureSeq_' = 0
  /\ toolActive' = [t \in Tools |-> FALSE]
  /\ IF urlParam # <<>> /\ ~isDecodable(urlParam[1])
       THEN /\ pc' = "failed"
            /\ UNCHANGED <<heap, features, nAlloc>>
       ELSE LET decoded == IF urlParam # <<>> THEN readFeatures(urlParam[1])
                           ELSE <<>>
                n == Len(decoded)
            IN /\ nAlloc + n <= MaxFeat
               /\ heap' = [f \in HeapIds |->
                             IF f \in (nAlloc + 1)..(nAlloc + n)
                               THEN decoded[f - nAlloc] ELSE heap[f]]
               /\ features' = extendCollection(features,
                                               [i \in 1..n |-> nAlloc + i])
               /\ nAlloc' = nAlloc + n
               /\ pc' = "ready"
  /\ UNCHANGED <<session, urlParam, active, selectedFeatures, sketch, timers, popup,
                 layerVars, styleVars>>

\* The page is loaded again: every object of the session is gone, pending
\* timeouts included; the URL stays, and a new controller will be constructed.
Reload ==
  /\ pc = "ready"
  /\ sketch = <<>>
  /\ session < MaxSessions
  /\ session' = session + 1
  /\ pc' = "new"
  /\ active' \in FlagValues
  /\ toolActive' = [t \in Tools |-> FALSE]
  /\ featureSeq_' = 0
  /\ features' = <<>>
  /\ selectedFeatures' = <<>>
  /\ heap' = [f \in HeapIds |-> IF f = ForeignFeature THEN ForeignObject
                                 ELSE BlankFeature]
  /\ nAlloc' = 0
  /\ timers' = <<>>
  /\ popup' = <<>>
  /\ UNCHANGED <<urlParam, sketch, layerVars, styleVars>>

\* ---- draw tools
\* The decorated interaction's `active` property set to true by the UI.
ActivateTool(t) ==
  /\ pc = "ready"
  /\ sketch = <<>>
  /\ ~toolActive[t]
  /\ toolActive' = [toolActive EXCEPT ![t] = TRUE]
  /\ UNCHANGED <<pc, session, urlParam, active, featureSeq_, features, selectedFeatures,
                 heap, nAlloc, sketch, timers, popup, layerVars, styleVars>>

\* Mutant: any falsy value deactivates (!newVal instead of newVal === false).
watchActive_falsy(newVal, ta) ==
  IF newVal \in {JsFalse, Undef}
    THEN [ta EXCEPT !["Point"] = FALSE, !["LineString"] = FALSE]
    ELSE ta

\* The $scope.$watch listener on this.active: the tools' states after it ran
\* with newVal.
watchActive(newVal, ta) ==
  IF newVal = JsFalse
    THEN [ta EXCEPT !["Point"] = FALSE, !["LineString"] = FALSE]
    ELSE ta

\* The bound flag changes and the digest runs the watcher.
SetActiveFlag(newVal) ==
  /\ pc = "ready"
  /\ sketch = <<>>
  /\ newVal # active
  /\ active' = newVal
  /\ toolActive' = watchActive(newVal, toolActive)
  /\ UNCHANGED <<pc, session, urlParam, featureSeq_, features, selectedFeatures, heap,
                 nAlloc, sketch, timers, popup, layerVars, styleVars>>

\* Mutant: the drawn feature is not appended to the copy.
urlFeatureList_noAppend(feats, f) == feats

\* The list onDrawEnd_ serializes: a copy of the collection's array with the
\* drawn feature appended.
urlFeatureList(feats, f) == Append(feats, f)

\* The timer queue after onDrawEnd_: window.setTimeout(callback, 0).
scheduleDeactivation(q, t) == Append(q, t)

\* Mutant: the handler deactivates the tool itself.
toolsAfterDrawEnd_sync(ta, t) == [ta EXCEPT ![t] = FALSE]

\* The tools' states when onDrawEnd_ returns.
toolsAfterDrawEnd(ta, t) == ta

\* The draw interaction t dispatches drawend for a new feature; onDrawEnd_
\* runs. The feature is not yet in the collection.
onDrawEnd_(t) ==
  /\ pc = "ready"
  /\ sketch = <<>>
  /\ toolActive[t]
  /\ nAlloc < MaxFeat
  /\ Len(timers) < MaxTimers
  /\ LET f == nAlloc + 1
         newHeap == [heap EXCEPT ![f] = drawnFeature(t, featureSeq_)]
     IN /\ featureSeq_' = featureSeq_ + 1
        /\ heap' = newHeap
        /\ nAlloc' = f
        /\ timers' = scheduleDeactivation(timers, t)
        /\ toolActive' = toolsAfterDrawEnd(toolActive, t)
        /\ urlParam' =
             <<writeFeatures(objectsOf(newHeap, urlFeatureList(features, f)))>>
        /\ sketch' = <<f, t>>
  /\ UNCHANGED <<pc, session, active, features, selectedFeatures, popup, layerVars, styleVars>>

\* After the drawend listeners returned, the draw interaction pushes the
\* feature to the collection it was given (features: this.features).
finishDrawing ==
  /\ pc = "ready"
  /\ sketch # <<>>
  /\ features' = Append(features, sketch[1])
  /\ sketch' = <<>>
  /\ UNCHANGED <<pc, session, urlParam, active, toolActive, featureSeq_,
                 selectedFeatures, heap, nAlloc, timers, popup, layerVars, styleVars>>

\* Mutant: the callback deactivates every draw tool.
deferredDeactivate_all(ta, t) == [u \in Tools |-> FALSE]

\* The tools' states after the deferred callback of a drawend of tool t:
\* event.target.setActive(false).
deferredDeactivate(ta, t) == [ta EXCEPT ![t] = FALSE]

\* The oldest zero-delay timeout fires, between two event handlers.
TimerFire ==
  /\ pc = "ready"
  /\ sketch = <<>>
  /\ timers # <<>>
  /\ toolActive' = deferredDeactivate(toolActive, Head(timers))
  /\ timers' = Tail(timers)
  /\ UNCHANGED <<pc, session, urlParam, active, featureSeq_, features, selectedFeatures,
                 heap, nAlloc, sketch, popup, layerVars, styleVars>>

\* A feature is removed from the shared collection by its other users.
RemoveFeature(f) ==
  /\ pc = "ready"
  /\ sketch = <<>>
  /\ Contains(features, f)
  /\ features' = Without(features, {f})
  /\ UNCHANGED <<pc, session, urlParam, active, toolActive, featureSeq_,
                 selectedFeatures, heap, nAlloc, sketch, timers, popup,
                 layerVars, styleVars>>

\* ---- selection
\* Mutant: the filter also accepts the feature of another layer.
selectFilter_foreign(feature, feats) ==
  Contains(feats, feature) \/ feature = ForeignFeature

\* Mutant: no filter, every feature of the map is accepted.
selectFilter_any(feature, feats) == TRUE

\* The select interaction's filter option.
selectFilter(feature, feats) == Contains(feats, feature)

\* The selectedFeatures ADD listener, for each element of fs in turn.
RECURSIVE onSelectedAdd(_, _)
onSelectedAdd(h, fs) ==
  IF fs = <<>> THEN h
  ELSE onSelectedAdd([h EXCEPT ![Head(fs)].selected = JsTrue], Tail(fs))

\* The selectedFeatures REMOVE listener, for each element of fs in turn.
RECURSIVE onSelectedRemove(_, _)
onSelectedRemove(h, fs) ==
  IF fs = <<>> THEN h
  ELSE onSelectedRemove([h EXCEPT ![Head(fs)].selected = JsFalse], Tail(fs))

\* The SELECT listener: the popup after a select event with evt.selected.
onSelect(selected) == IF Len(selected) > 0 THEN <<selected[1]>> ELSE <<>>

\* The features on the map a click can hit.
OnMap == Range(features) \cup Range(selectedFeatures) \cup {ForeignFeature}

\* The features under the pointer, topmost first.
Hits ==
  UNION {{h \in [1..n -> OnMap] : \A i, j \in 1..n : i # j => h[i] # h[j]}
           : n \in 0..MaxHits}

\* ol.interaction.Select, plain click (multi: false): the first feature under
\* the pointer that the filter accepts.
RECURSIVE firstAccepted(_, _)
firstAccepted(hits, feats) ==
  IF hits = <<>> THEN <<>>
  ELSE IF selectFilter(Head(hits), feats) THEN <<Head(hits)>>
  ELSE firstAccepted(Tail(hits), feats)

\* ol.interaction.Select, shift-click (toggle): the features under the pointer
\* that are not selected and that the filter accepts.
RECURSIVE toggledIn(_, _, _)
toggledIn(hits, sel, feats) ==
  IF hits = <<>> THEN <<>>
  ELSE (IF ~Contains(sel, Head(hits)) /\ selectFilter(Head(hits), feats)
          THEN <<Head(hits)>> ELSE <<>>) \o toggledIn(Tail(hits), sel, feats)

\* ... and those that are selected.
RECURSIVE toggledOut(_, _)
toggledOut(hits, sel) ==
  IF hits = <<>> THEN <<>>
  ELSE (IF Contains(sel, Head(hits)) THEN <<Head(hits)>> ELSE <<>>)
         \o toggledOut(Tail(hits), sel)

\* The collection changes (REMOVE listeners, then ADD listeners) and the
\* select event is dispatched to the SELECT listener.
applySelection(selected, deselected) ==
  /\ selectedFeatures' = Without(selectedFeatures, Range(deselected)) \o selected
  /\ heap' = onSelectedAdd(onSelectedRemove(heap, deselected), selected)
  /\ popup' = onSelect(selected)

\* A plain click on the map, handled by the select interaction.
SelectClick(hits) ==
  /\ pc = "ready"
  /\ sketch = <<>>
  /\ LET selected == firstAccepted(hits, features)
     IN IF /\ Len(selected) > 0
           /\ Len(selectedFeatures) = 1
           /\ selectedFeatures[1] = selected[1]
          THEN UNCHANGED <<selectedFeatures, heap, popup>>
          ELSE applySelection(selected, selectedFeatures)
  /\ UNCHANGED <<pc, session, urlParam, active, toolActive, featureSeq_, features,
                 nAlloc, sketch, timers, layerVars, styleVars>>

\* A shift-click on the map, handled by the select interaction.
SelectToggle(hits) ==
  /\ pc = "ready"
  /\ sketch = <<>>
  /\ LET selected == toggledIn(hits, selectedFeatures, features)
         deselected == toggledOut(hits, selectedFeatures)
     IN IF Len(selected) > 0 \/ Len(deselected) > 0
          THEN applySelection(selected, deselected)
          ELSE UNCHANGED <<selectedFeatures, heap, popup>>
  /\ UNCHANGED <<pc, session, urlParam, active, toolActive, featureSeq_, features,
                 nAlloc, sketch, timers, layerVars, styleVars>>

\* ---- the style function
\* JavaScript truthiness of the values the model uses.
Truthy(v) == v \notin {Undef, JsFalse, ""}

\* goog.color.hexToRgb, on the colours the model uses.
hexToRgb(color) ==
  CASE color = "#ed1c24" -> <<237, 28, 36>>
    [] color = "#ffffff" -> <<255, 255, 255>>
    [] OTHER -> <<0, 0, 0>>

\* goog.color.alpha.rgbaToRgbaStyle
rgbaToRgbaStyle(r, g, b, a) == <<"rgba", r, g, b, a>>

\* The vertex style's geometry function, by geometry type.
vertexGeometry(geom) ==
  IF geom = "LineString" THEN "MultiPoint(coordinates)"
  ELSE IF geom = "Polygon" THEN "MultiPoint(coordinates[0])"
  ELSE "geometry"

\* An ol.style.Style without any option.
EmptyStyle ==
  [image |-> "none", fill |-> <<>>, stroke |-> <<>>, text |-> <<>>,
   geometry |-> "default"]

\* The black and white marker on the vertices.
vertexStyle(geom) ==
  [EmptyStyle EXCEPT !.image = "RegularShape(vertex)",
                     !.geometry = vertexGeometry(geom)]

\* styles after the `__editable__` && `__selected__` test.
vertexStyles(feature) ==
  IF Truthy(feature.editable) /\ Truthy(feature.selected)
    THEN <<vertexStyle(feature.geom)>>
    ELSE <<>>

lineDashOf(style) ==
  IF style.lineDash = "dashed" THEN <<10, 10>>
  ELSE IF style.lineDash = "dotted" THEN <<1, 6>>
  ELSE <<>>

\* Mutant: a stroke is built for size 0 too.
strokeOf_nonNegative(style) ==
  IF style.size >= 0
    THEN <<[color |-> style.color, width |-> style.size,
            lineDash |-> lineDashOf(style)]>>
    ELSE <<>>

\* var stroke: defined only when the size is positive.
strokeOf(style) ==
  IF style.size > 0
    THEN <<[color |-> style.color, width |-> style.size,
            lineDash |-> lineDashOf(style)]>>
    ELSE <<>>

imageOf(style) ==
  IF Truthy(style.shape) /\ style.shape # "circle"
    THEN "RegularShape" ELSE "Circle"

\* The style pushed when the descriptor has no text.
shapeStyle(style) ==
  LET rgb == hexToRgb(style.color)
  IN [EmptyStyle EXCEPT
        !.image = imageOf(style),
        !.fill = <<rgbaToRgbaStyle(rgb[1], rgb[2], rgb[3], style.opacity)>>,
        !.stroke = strokeOf(style)]

\* The style built when the descriptor has a text.
textStyle(feature, style) ==
  [EmptyStyle EXCEPT
     !.text = <<[text |-> feature.name, fontSize |-> style.size,
                 rotation |-> style.rotation, fill |-> style.color,
                 stroke |-> <<"white", 2>>]>>]

\* Mutant: the text style is pushed instead of replacing the array.
withText_push(styles, ts) == Append(styles, ts)

\* The two branches of the final if: styles = [text style], or
\* styles.push(shape style).
withText(styles, ts) == <<ts>>
withShape(styles, ss) == Append(styles, ss)

\* this.styleFunction_, called with the feature as `this`.
styleFunction_(feature) ==
  LET styles == vertexStyles(feature)
      style == feature.style[1]
  IN IF Truthy(style.text)
       THEN withText(styles, textStyle(feature, style))
       ELSE withShape(styles, shapeStyle(style))

\* The features handed to the style function: any attributes, one descriptor.
StyleDescriptors ==
  [color : {"#ed1c24"}, opacity : {20}, size : {0, 125, 1000},
   shape : {Undef, "circle", "square"}, rotation : {0},
   lineDash : {"plain", "dashed"}, text : {Undef, "", "label"}]

StyleInputs ==
  {[geom |-> g, name |-> "element 1", editable |-> e, selected |-> sl,
    style |-> <<d>>, styleFn |-> TRUE, origin |-> "drawn"] :
     g \in Tools, e \in {Undef, JsTrue}, sl \in FlagValues,
     d \in StyleDescriptors}

StyleIdle ==
  /\ styleIn = drawnFeature("Point", 0)
  /\ styleOut = <<>>
  /\ rendered = FALSE

StyleInit ==
  /\ styleIn \in StyleInputs
  /\ styleOut = <<>>
  /\ rendered = FALSE

\* The rendering layer calls the feature's style function.
Render ==
  /\ ~rendered
  /\ styleOut' = styleFunction_(styleIn)
  /\ rendered' = TRUE
  /\ UNCHANGED <<styleIn, layerVars, drawVars>>

\* The descriptor or the attributes are changed; the feature is drawn again.
Restyle ==
  /\ rendered
  /\ styleIn' \in StyleInputs
  /\ styleOut' = <<>>
  /\ rendered' = FALSE
  /\ UNCHANGED <<layerVars, drawVars>>

StyleNext == Render \/ Restyle

\* ---- the specifications
Init == DrawInit /\ LayerIdle /\ StyleIdle

Next ==
  \/ Construct
  \/ Reload
  \/ \E t \in Tools : ActivateTool(t)
  \/ \E v \in FlagValues : SetActiveFlag(v)
  \/ \E t \in Tools : onDrawEnd_(t)
  \/ finishDrawing
  \/ TimerFire
  \/ \E f \in FeatureIds : RemoveFeature(f)
  \/ \E h \in Hits : SelectClick(h)
  \/ \E h \in Hits : SelectToggle(h)

Spec == Init /\ [][Next]_vars

\* The controller when no other user of the shared collection removes a
\* feature from it (the controller itself never does).
NoRemoveNext ==
  \/ Construct
  \/ Reload
  \/ \E t \in Tools : ActivateTool(t)
  \/ \E v \in FlagValues : SetActiveFlag(v)
  \/ \E t \in Tools : onDrawEnd_(t)
  \/ finishDrawing
  \/ TimerFire
  \/ \E h \in Hits : SelectClick(h)
  \/ \E h \in Hits : SelectToggle(h)

NoRemoveSpec == Init /\ [][NoRemoveNext]_vars

\* The event loop runs every handler to completion and runs every pending
\* timeout.
FairSpec == Spec /\ WF_vars(finishDrawing) /\ WF_vars(TimerFire)

LayerSpecInit == LayerInit /\ DrawIdle /\ StyleIdle

LayerSpec == LayerSpecInit /\ [][LayerNext]_vars

\* The layer manager when nothing but changeVisibility writes opacities.
ToggleNext ==
  \/ \E l \in Layers : changeVisibility(l)
  \/ \E l \in Layers : removeLayer(l)

ToggleOnlySpec == LayerSpecInit /\ [][ToggleNext]_vars

\* The collections and `features` parameters a controller is constructed with:
\* a collection that is empty or holds one feature made elsewhere, and a
\* parameter that is absent, a feature list as text, or text that does not
\* decode.
UrlItems ==
  {writeFeature(drawnFeature(t, k)) : t \in Tools, k \in 0..(MaxFeat - 1)}

UrlTexts(maxLen) ==
  UNION {[1..n -> UrlItems] : n \in 0..maxLen} \cup {<< <<>> >>}

PreexistingObject(t) ==
  [BlankFeature EXCEPT !.geom = t, !.origin = "preexisting"]

ConstructSpecInit ==
  /\ LayerIdle /\ StyleIdle
  /\ pc = "new"
  /\ session = 1
  /\ active \in FlagValues
  /\ toolActive = [t \in Tools |-> FALSE]
  /\ featureSeq_ = 0
  /\ selectedFeatures = <<>>
  /\ sketch = <<>>
  /\ timers = <<>>
  /\ popup = <<>>
  /\ nAlloc \in 0..1
  /\ features = [i \in 1..nAlloc |-> i]
  /\ \E t \in Tools :
       heap = [f \in HeapIds |->
                 IF f = ForeignFeature THEN ForeignObject
                 ELSE IF f <= nAlloc THEN PreexistingObject(t)
                 ELSE BlankFeature]
  /\ urlParam \in {<<>>} \cup {<<text>> : text \in UrlTexts(MaxFeat - nAlloc)}

ConstructSpec == ConstructSpecInit /\ [][Construct]_vars

StyleSpecInit == StyleInit /\ DrawIdle /\ LayerIdle

StyleSpec == StyleSpecInit /\ [][StyleNext]_vars

\* ============================================================
\* Properties
\* ============================================================

\* ---- C1
\* changeVisibility is self-inverse: when the last two opacity operations on
\* a layer are changeVisibility calls and the first found a non-zero opacity
\* v, the second found 0 and the layer is back at v, whatever the memory
\* held before.
C1_ToggleSelfInverse ==
  \A l \in Layers :
    (Len(layerHist[l]) = 2 /\ layerHist[l][1].pre # 0)
      => /\ layerHist[l][2].pre = 0
         /\ layerOpacity[l] = layerHist[l][1].pre

\* Two calls in a row from a partial opacity, with a stale entry of another
\* value in the memory.
C1_Witness ==
  \E l \in Layers :
    /\ Len(layerHist[l]) = 2
    /\ layerHist[l][1].pre \notin {0, FullOpacity}
    /\ layerHist[l][1].memPre \notin {<<>>, <<layerHist[l][1].pre>>}
    /\ layerOpacity[l] = layerHist[l][1].pre

\* ---- C2
\* Default-restore path: two changeVisibility calls in a row on a layer at
\* opacity 0 with no remembered opacity give opacity 1, then opacity 0.
C2_DefaultRestore ==
  \A l \in Layers :
    (/\ Len(layerHist[l]) = 2
     /\ layerHist[l][1].pre = 0
     /\ layerHist[l][1].memPre = <<>>)
      => /\ layerHist[l][2].pre = FullOpacity
         /\ layerOpacity[l] = 0

C2_Witness ==
  \E l \in Layers :
    /\ Len(layerHist[l]) = 2
    /\ layerHist[l][1].pre = 0
    /\ layerHist[l][1].memPre = <<>>
    /\ layerOpacity[l] = 0

\* ---- C3
\* When the active flag is set to false, the watcher leaves all three draw
\* tools inactive.
C3_FlagDeactivatesAllTools ==
  [][(pc = "ready" /\ pc' = "ready" /\ active' # active /\ active' = JsFalse)
       => \A t \in Tools : ~toolActive'[t]]_vars

\* ---- C4
\* When the active flag changes to false, the point and the line tool are
\* inactive after the watcher; a change to another value changes no tool.
C4_FlagDeactivatesPointAndLine ==
  [][(pc = "ready" /\ pc' = "ready" /\ active' # active)
       => IF active' = JsFalse
            THEN ~toolActive'["Point"] /\ ~toolActive'["LineString"]
            ELSE toolActive' = toolActive]_vars

\* The controller handled two drawends, one by the point and one by the line
\* tool, and no timeout has fired yet: both tools were active and only the
\* watcher can have deactivated them.
C4_Witness ==
  /\ pc = "ready"
  /\ featureSeq_ = 2
  /\ Range(timers) = {"Point", "LineString"}
  /\ active = JsFalse
  /\ ~toolActive["Point"]
  /\ ~toolActive["LineString"]

\* ---- C5
\* The k-th feature drawn in a controller's session is named "element k",
\* whatever tool drew it, also when features were removed from the
\* collection in between.
DecodedCount == Cardinality({g \in 1..nAlloc : heap[g].origin = "decoded"})

C5_SequentialNames ==
  /\ featureSeq_ = nAlloc - DecodedCount
  /\ \A f \in 1..nAlloc :
       heap[f].origin = "drawn"
         => heap[f].name = "element " \o ToString(f - DecodedCount)

\* The second drawend of a session is being handled while the collection is
\* empty: the first drawn feature was removed before.
C5_Witness ==
  /\ sketch # <<>>
  /\ sketch[1] = 2
  /\ heap[1].origin = "drawn"
  /\ heap[1].geom # heap[2].geom
  /\ features = <<>>
  /\ heap[2].name = "element 2"

\* ---- C6
\* Between event handlers, a feature is in the selection set if and only if
\* its `__selected__` attribute is true.
C6_SelectedIffInSet ==
  (pc = "ready" /\ sketch = <<>>)
    => \A f \in HeapIds :
         Contains(selectedFeatures, f) <=> heap[f].selected = JsTrue

\* ---- C7
\* The drawend handler leaves the tools' states as they are and schedules a
\* callback; a tool is deactivated only between event handlers; and every
\* drawend is eventually followed by a state in which its tool is inactive.
C7_DeferredDeactivation ==
  /\ [][(sketch = <<>> /\ sketch' # <<>>)
          => /\ toolActive' = toolActive
             /\ timers' = Append(timers, sketch'[2])]_vars
  /\ [][(\E t \in Tools : toolActive[t] /\ ~toolActive'[t])
          => (sketch = <<>> /\ sketch' = <<>>)]_vars
  /\ \A t \in Tools :
       (sketch # <<>> /\ sketch[2] = t) ~> ~toolActive[t]

\* The handler has returned, the emitting tool is still active and its
\* callback is pending.
C7_Witness ==
  /\ sketch # <<>>
  /\ toolActive[sketch[2]]
  /\ timers # <<>>
  /\ timers[Len(timers)] = sketch[2]

\* ---- C8
\* A plain click on one feature leaves it selected if and only if it is a
\* member of the controller's collection, and whatever the select interaction
\* adds to the selection set is a member of the collection at that time.
C8_SelectFilter ==
  /\ [][\A f \in HeapIds :
          (f \in OnMap /\ SelectClick(<<f>>))
            => (Contains(selectedFeatures', f) <=> Contains(features, f))]_vars
  /\ [][\A f \in HeapIds :
          (~Contains(selectedFeatures, f) /\ Contains(selectedFeatures', f))
            => Contains(features, f)]_vars

\* A member of the collection is selected, while a feature that was selected
\* and has left the collection is not.
C8_Witness ==
  \E f, g \in FeatureIds :
    /\ selectedFeatures = <<f>>
    /\ Contains(features, f)
    /\ g <= nAlloc
    /\ ~Contains(features, g)
    /\ heap[g].selected = JsFalse

\* ---- C9
\* With a text in the descriptor the style function returns one style, with
\* a text and nothing else; without, no returned style has a text and the
\* last one is the shape style (image and fill, on the feature's geometry).
C9_TextExcludesShape ==
  rendered =>
    IF Truthy(styleIn.style[1].text)
      THEN /\ Len(styleOut) = 1
           /\ styleOut[1].text # <<>>
           /\ styleOut[1].image = "none"
           /\ styleOut[1].fill = <<>>
           /\ styleOut[1].stroke = <<>>
           /\ styleOut[1].geometry = "default"
      ELSE /\ Len(styleOut) >= 1
           /\ \A i \in 1..Len(styleOut) : styleOut[i].text = <<>>
           /\ styleOut[Len(styleOut)].image \in {"Circle", "RegularShape"}
           /\ styleOut[Len(styleOut)].fill # <<>>
           /\ styleOut[Len(styleOut)].geometry = "default"

\* A feature that is editable and selected and has a text was rendered.
C9_Witness ==
  /\ rendered
  /\ Truthy(styleIn.style[1].text)
  /\ styleIn.editable = JsTrue
  /\ styleIn.selected = JsTrue
  /\ Len(styleOut) = 1

\* ---- C10
\* The drawend handler writes to the URL the members of the collection, in
\* order, followed by the drawn feature, which is not yet a member; once the
\* feature is pushed, the URL holds the content of the collection.
C10_UrlHoldsCollection ==
  /\ [][(sketch = <<>> /\ sketch' # <<>>)
          => LET f == sketch'[1]
                 n == Len(features)
             IN /\ ~Contains(features, f)
                /\ Len(urlParam') = 1
                /\ Len(urlParam'[1]) = n + 1
                /\ \A i \in 1..n :
                     urlParam'[1][i] = writeFeature(heap'[features[i]])
                /\ urlParam'[1][n + 1] = writeFeature(heap'[f])]_vars
  /\ [][(sketch # <<>> /\ sketch' = <<>>)
          => urlParam' = <<writeFeatures(objectsOf(heap', features'))>>]_vars

\* Two features were drawn in the first session and the URL holds both.
C10_Witness ==
  /\ session = 1
  /\ sketch = <<>>
  /\ Len(features) = 2
  /\ urlParam = <<writeFeatures(objectsOf(heap, features))>>

\* ---- C11
\* Between event handlers the popup is hidden exactly when the selection set
\* is empty.
C11_PopupHiddenIffSelectionEmpty ==
  (pc = "ready" /\ sketch = <<>>)
    => (popup = <<>> <=> selectedFeatures = <<>>)

\* ---- C12
\* A changeVisibility call on a layer at a non-zero opacity v leaves the
\* entry v for it, a call on a layer at opacity 0 leaves no entry; when only
\* changeVisibility changes opacities, a layer with an entry is at opacity 0
\* and the entry is not 0.
C12_MemoryEntries ==
  /\ [][\A l \in Layers :
          layerOpacity'[l] # layerOpacity[l]
            => IF layerOpacity[l] # 0
                 THEN opacities_'[l] = <<layerOpacity[l]>>
                 ELSE opacities_'[l] = <<>>]_vars
  /\ [](\A l \in Layers :
          opacities_[l] # <<>>
            => (layerOpacity[l] = 0 /\ opacities_[l][1] # 0))

\* A layer was toggled off, on and off again: it has an entry.
C12_Witness ==
  \E l \in Layers :
    /\ Len(layerHist[l]) = 2
    /\ layerHist[l][1].pre = 0
    /\ layerHist[l][1].memPre = <<layerHist[l][2].pre>>
    /\ layerHist[l][2].memPre = <<>>
    /\ layerHist[l][2].pre \notin {0, FullOpacity}
    /\ opacities_[l] = <<layerHist[l][2].pre>>
    /\ layerOpacity[l] = 0

\* ---- C13
\* When the drawend handler returns, the drawn feature has its sequential
\* name, the editable mark, one style descriptor with the default values
\* (size 10 for a point, 1.25 otherwise) and the style function, and the URL
\* written by the handler holds the feature with these attributes.
C13_DrawEndAttributes ==
  [][(sketch = <<>> /\ sketch' # <<>>)
       => LET f == heap'[sketch'[1]]
              text == urlParam'[1]
          IN /\ f.geom = sketch'[2]
             /\ f.name = "element " \o ToString(featureSeq_')
             /\ f.editable = JsTrue
             /\ Len(f.style) = 1
             /\ f.style[1].color = "#ed1c24"
             /\ f.style[1].opacity = 20
             /\ f.style[1].shape = "circle"
             /\ f.style[1].rotation = 0
             /\ f.style[1].lineDash = "plain"
             /\ f.style[1].size = (IF f.geom = "Point" THEN 1000 ELSE 125)
             /\ f.styleFn
             /\ text[Len(text)] = writeFeature(f)]_vars

\* The handler has returned for a polygon: the feature has the line size.
C13_Witness ==
  /\ sketch # <<>>
  /\ sketch[2] = "Polygon"
  /\ heap[sketch[1]].editable = JsTrue
  /\ heap[sketch[1]].style = <<defaultStyle("Polygon")>>
  /\ heap[sketch[1]].style[1].size = 125
  /\ heap[sketch[1]].styleFn

\* ---- C14
\* Construction leaves the collection unchanged when there is no `features`
\* parameter; appends the decoded features after the existing members, in
\* decoded order, when the parameter decodes to a list; and fails, without
\* extending the collection, when the parameter decodes to null.
C14_Construction ==
  [][(pc = "new" /\ pc' # "new")
       => LET old == Len(features)
          IN IF urlParam = <<>>
               THEN pc' = "ready" /\ features' = features
                    /\ objectsOf(heap', features') = objectsOf(heap, features)
             ELSE IF isDecodable(urlParam[1])
               THEN /\ pc' = "ready"
                    /\ Len(features') = old + Len(urlParam[1])
                    /\ \A i \in 1..old :
                         /\ features'[i] = features[i]
                         /\ heap'[features'[i]] = heap[features[i]]
                    /\ \A i \in 1..Len(urlParam[1]) :
                         /\ heap'[features'[old + i]] = readFeature(urlParam[1][i])
                         /\ ~Contains(features, features'[old + i])
                         /\ \A j \in 1..Len(urlParam[1]) :
                              i # j => features'[old + i] # features'[old + j]
             ELSE /\ pc' = "failed"
                  /\ features' = features
                  /\ objectsOf(heap', features') = objectsOf(heap, features)]_vars

\* A controller constructed on a collection with one member and a parameter
\* holding one feature: the decoded feature comes second.
C14_Witness ==
  /\ pc = "ready"
  /\ urlParam # <<>>
  /\ Len(features) = 2
  /\ heap[features[1]].origin = "preexisting"
  /\ heap[features[2]].origin = "decoded"
  /\ heap[features[2]] = readFeature(urlParam[1][1])

\* Construction failed on text that does not decode.
C14_FailedWitness ==
  /\ pc = "failed"
  /\ urlParam # <<>>
  /\ ~isDecodable(urlParam[1])
  /\ Len(features) = 1

\* ---- C15
\* The text written by a draw-end decodes to a list equivalent to the written
\* one, and a controller constructed from the URL of the previous session
\* starts with a collection equivalent to the collection that session ended
\* with (same geometries and attributes, same order).
C15_ReloadRestoresCollection ==
  [][(pc = "ready" /\ pc' = "new")
       => LET text == IF urlParam = <<>> THEN <<>> ELSE urlParam[1]
          IN /\ isDecodable(text)
             /\ writeFeatures(readFeatures(text)) = text
             /\ text = writeFeatures(objectsOf(heap, features))]_vars

\* ---- C16
\* For a descriptor without a text label the style function returns two
\* styles, the vertex style first and the shape style second, when the
\* feature is editable and selected, and the shape style alone otherwise; the
\* shape style has a stroke exactly when the descriptor's size is above 0.
C16_NoTextStyles ==
  (rendered /\ ~Truthy(styleIn.style[1].text))
    => LET shape == styleOut[Len(styleOut)]
       IN /\ IF Truthy(styleIn.editable) /\ Truthy(styleIn.selected)
               THEN /\ Len(styleOut) = 2
                    /\ styleOut[1] = vertexStyle(styleIn.geom)
               ELSE Len(styleOut) = 1
          /\ shape.text = <<>>
          /\ shape.geometry = "default"
          /\ shape.fill # <<>>
          /\ shape.image \in {"Circle", "RegularShape"}
          /\ (shape.stroke # <<>>) <=> (styleIn.style[1].size > 0)

\* An editable, selected feature without a label and with size 0: two styles,
\* the second without a stroke.
C16_Witness ==
  /\ rendered
  /\ ~Truthy(styleIn.style[1].text)
  /\ Truthy(styleIn.editable) /\ Truthy(styleIn.selected)
  /\ styleIn.style[1].size = 0
  /\ Len(styleOut) = 2
  /\ styleOut[2].stroke = <<>>

\* ---- C17
\* While the controller lives, a pending deferred callback leaves the timer
\* queue only by running, and when it runs the tool that emitted its
\* draw-end is inactive afterwards, whatever its state before, while the
\* other two tools keep their active state.
C17_CallbackDeactivatesEmitterOnly ==
  [][(pc = "ready" /\ pc' = "ready" /\ Len(timers') < Len(timers))
       => /\ timers' = Tail(timers)
          /\ ~toolActive'[Head(timers)]
          /\ \A t \in Tools \ {Head(timers)} : toolActive'[t] = toolActive[t]]_vars

\* The callback of the session's only draw-end (by the point tool) has run
\* after the active flag became false: the point tool is inactive, the
\* polygon tool is still active.
C17_Witness ==
  /\ pc = "ready"
  /\ featureSeq_ = 1
  /\ timers = <<>>
  /\ sketch = <<>>
  /\ nAlloc >= 1
  /\ heap[nAlloc].name = "element 1"
  /\ heap[nAlloc].geom = "Point"
  /\ active = JsFalse
  /\ ~toolActive["Point"]
  /\ toolActive["Polygon"]

\* ---- C18
\* When no feature is removed from the feature collection, every feature in
\* the selection set, on which the modify interaction operates, is a member
\* of the feature collection.
C18_SelectionWithinCollection ==
  \A i \in 1..Len(selectedFeatures) : Contains(features, selectedFeatures[i])

\* Two features of the collection are selected (a click, then a shift-click).
C18_Witness ==
  /\ pc = "ready"
  /\ Len(selectedFeatures) = 2
  /\ selectedFeatures[1] # selectedFeatures[2]
  /\ Contains(features, selectedFeatures[1])
  /\ Contains(features, selectedFeatures[2])

\* ---- C19
\* changeVisibility(layer) leaves the opacity and the memory entry of every
\* other layer unchanged; removing a layer from the map changes no layer's
\* opacity and no memory entry.
C19_Frame ==
  [][/\ \A l \in Layers :
          changeVisibility(l)
            => \A k \in Layers \ {l} :
                 /\ layerOpacity'[k] = layerOpacity[k]
                 /\ opacities_'[k] = opacities_[k]
     /\ mapLayers' # mapLayers
          => /\ layerOpacity' = layerOpacity
             /\ opacities_' = opacities_]_vars

\* A layer was toggled off and then removed from the map: its entry is still
\* remembered, and the other layer, never toggled, is as it was created.
C19_Witness ==
  \E l \in Layers :
    /\ l \notin mapLayers
    /\ Len(layerHist[l]) = 1
    /\ opacities_[l] = <<layerHist[l][1].pre>>
    /\ layerOpacity[l] = 0
    /\ \E k \in Layers \ {l} :
         /\ k \in mapLayers
         /\ layerHist[k] = <<>>
         /\ opacities_[k] = <<>>
         /\ layerOpacity[k] # 0

====
